---------------------------- MODULE Spec2Model ----------------------------
(***************************************************************************)
(* Model of the OAuth2 token lifecycle of go-api-sdk-nexthink              *)
(* (nexthink/client: TokenManager, SetupAuthentication, NewTransport).     *)
(*                                                                         *)
(* Callers are goroutines.  Each one runs one top-level operation at a     *)
(* time: TokenManager.GetToken, TokenManager.RefreshToken,                 *)
(* TokenManager.InvalidateToken, or a request sent through the resty       *)
(* client (which runs the client's request middlewares first).             *)
(* tm.mu is a sync.RWMutex: one writer or any number of readers, and it is *)
(* not re-entrant.                                                         *)
(*                                                                         *)
(* Two constructions of the token manager exist in the code:               *)
(*   middleware = FALSE  NewTokenManager on a plain resty client           *)
(*   middleware = TRUE   NewTransport -> SetupAuthentication: the initial  *)
(*                       token has been fetched and the token-injecting    *)
(*                       request middleware is installed on the very       *)
(*                       client the token manager posts with.              *)
(* Times are seconds since construction.                                   *)
(***************************************************************************)
EXTENDS Integers, Sequences, FiniteSets, TLC

\* ------------------------------------------------------------------ bounds
NumProcs == 2
MaxCalls == 3
MaxTicks == 2
TickSeconds == 180

\* ------------------------------------------------------- program constants
TokenRefreshBuffer == 120

Procs == 1..NumProcs
None == 0
NoToken == [AccessToken |-> 0, ExpiresIn |-> 0, serial |-> 0]
ZeroTime == 0 - 1000000

\* Outcomes of one POST to the token endpoint.  A 2xx answer carries
\* expires_in and may lack access_token (encoding/json leaves the field "").
ExpiresInValues == {0 - 60, 0, 120, 240, 300}
TokenBodies == [kind : {"ok"}, ExpiresIn : ExpiresInValues, hasToken : {TRUE}]
                 \cup {[kind |-> "ok", ExpiresIn |-> 300, hasToken |-> FALSE]}
Failures == {[kind |-> k, ExpiresIn |-> 0, hasToken |-> FALSE] :
                 k \in {"request", "status", "parse"}}
Responses == TokenBodies \cup Failures
NoResp == [kind |-> "none", no |-> 0]

NoResult == [token |-> 0, err |-> "none", serial |-> 0]
NotSent == [did |-> FALSE, bearer |-> 0]

VARIABLES
    middleware,     \* request middleware of SetupAuthentication installed
    currentToken,   \* tm.currentToken (NoToken models nil)
    tokenExpiry,    \* tm.tokenExpiry
    muWriter,       \* tm.mu: goroutine holding Lock, or None
    muReaders,      \* tm.mu: goroutines holding RLock
    now,            \* time.Now()
    endpointCalls,  \* requests received by the token endpoint
    pc,             \* position of each goroutine
    op,             \* top-level operation of each goroutine
    stack,          \* who called GetToken: "top", "ex_mw", "rt_mw"
    resp,           \* the token POST a goroutine is waiting for
    result,         \* what the top-level operation returned
    sent,           \* bearer of the request the goroutine sent, or None
    \* history variables
    calls,          \* token-endpoint calls made by the running operation
    via,            \* how the operation got its token
    startSerial,    \* newest token stored when the operation started
    lastStored,     \* newest token ever stored
    sawFailure,     \* was blocked on tm.mu.Lock while a refresh failed
    invalidations,  \* InvalidateToken calls in a row since the last store
                    \* (counted up to 2)
    episodeCalls    \* token-endpoint calls since the token was last usable

\* nql.Service.WaitForExport: one call of it
VARIABLES
    exportID,       \* the argument exportID, by its length
    wpc,            \* position of the call: "idle", "initial" (first
                    \* GetExportStatus running), "select", "poll"
                    \* (GetExportStatus of the loop running), "done"
    pollInterval,   \* after the defaults were applied (seconds)
    timeout,        \* after the defaults were applied (seconds)
    elapsed,        \* seconds since the call began
    nextTick,       \* when the ticker fires next
    tickReady,      \* ticker.C holds a tick (the channel buffers one)
    ctxErr,         \* timeoutCtx.Err(): "none", "deadline", "canceled"
    status,         \* the variable status ("nil" models the nil pointer)
    ret,            \* what WaitForExport returned
    \* history variables
    statusCalls,    \* calls of GetExportStatus made
    statusRequests, \* of them, those that were sent to the status endpoint
    ticksTaken,     \* receives from ticker.C
    observed        \* what the first MaxObserved calls of GetExportStatus
                    \* returned, in order: a status or the cause of an error

\* one call of a method of nql.Service
VARIABLES
    svcCall,        \* the method called and its argument, or NoCall
    svcErr,         \* the error it returned
    httpRequests,   \* requests the call handed to the HTTP client
    tokenRequests,  \* GetToken calls made for it by the request middleware
    sentRequests    \* the requests that went out for it, in order

\* one request executed by the resty client of NewTransport
VARIABLES
    retryCount,     \* the client's configured retry count
    attempts,       \* times the request was sent
    answers,        \* what came back for each attempt, in order
    rpc,            \* "idle", "sending", "waiting", "done"
    outcome         \* what Execute returned: the last answer (0 before)

\* one call of ParseErrorResponse
VARIABLES
    body,           \* the response body
    statusCode,     \* the arguments statusCode, status, method, endpoint
    statusText,
    method,
    endpoint,
    apiError        \* the *APIError returned, or NoError before the call

\* one call of a classification predicate of errors.go
VARIABLES
    classified,     \* the error it was given
    predicate,      \* its name, "none" before the call
    verdict         \* what it returned

\* one call of Transport.validateResponse
VARIABLES
    response,       \* the response it was given, NoResponse before the call
    validateErr     \* the error it returned ("none" models nil)

tokenVars == <<middleware, currentToken, tokenExpiry, muWriter, muReaders, now,
               endpointCalls, pc, op, stack, resp, result, sent,
               calls, via, startSerial, lastStored, sawFailure,
               invalidations, episodeCalls>>
waitVars == <<exportID, wpc, pollInterval, timeout, elapsed, nextTick,
              tickReady, ctxErr, status, ret, statusCalls, statusRequests,
              ticksTaken, observed>>
svcVars == <<svcCall, svcErr, httpRequests, tokenRequests, sentRequests>>
retryVars == <<retryCount, attempts, answers, rpc, outcome>>
parseVars == <<body, statusCode, statusText, method, endpoint, apiError>>
classVars == <<classified, predicate, verdict>>
validateVars == <<response, validateErr>>

vars == <<tokenVars, waitVars, svcVars, retryVars, parseVars, classVars,
          validateVars>>

tmVars == <<currentToken, tokenExpiry>>
muVars == <<muWriter, muReaders>>

refreshBuffer == TokenRefreshBuffer

\* mutant of Usable: the refresh margin is forgotten
UsableNoMargin ==
    currentToken /= NoToken /\ now < tokenExpiry

\* tm.currentToken != nil &&
\*     time.Now().Add(tm.refreshBuffer).Before(tm.tokenExpiry)
Usable ==
    currentToken /= NoToken /\ now + refreshBuffer < tokenExpiry

\* tm.mu.Lock() can proceed
CanLock == muWriter = None /\ muReaders = {}

\* tm.mu.RLock() can proceed
CanRLock == muWriter = None

\* The token a 2xx body unmarshals to; k is the number of the endpoint call.
TokenOf(r, k) ==
    [AccessToken |-> IF r.hasToken THEN k ELSE 0, ExpiresIn |-> r.ExpiresIn,
     serial |-> k]

\* ---------------------------------------------- no other call has begun
NoRet == [status |-> "nil", err |-> "none", cause |-> "none"]
NoCall == [method |-> "none"]
Absent == [t |-> "absent", v |-> ""]
NoBody == [kind |-> "none",
           error |-> [is |-> "absent", code |-> "", message |-> "",
                      details |-> ""],
           message |-> Absent, code |-> Absent]
NoError == [Code |-> "none", Message |-> "none", Details |-> "none",
            StatusCode |-> 0, Status |-> "none", Endpoint |-> "none",
            Method |-> "none"]

\* WaitForExport has not been called
WaitIdle ==
    /\ exportID = 0
    /\ wpc = "idle"
    /\ pollInterval = 0
    /\ timeout = 0
    /\ elapsed = 0
    /\ nextTick = 0
    /\ tickReady = FALSE
    /\ ctxErr = "none"
    /\ status = "nil"
    /\ ret = NoRet
    /\ statusCalls = 0
    /\ statusRequests = 0
    /\ ticksTaken = 0
    /\ observed = <<>>

\* no method of nql.Service has been called
ServiceIdle ==
    /\ svcCall = NoCall
    /\ svcErr = "none"
    /\ httpRequests = 0
    /\ tokenRequests = 0
    /\ sentRequests = <<>>

\* no request has been executed
RetryIdle ==
    /\ retryCount = 0
    /\ attempts = 0
    /\ answers = <<>>
    /\ rpc = "idle"
    /\ outcome = 0

\* ParseErrorResponse has not been called
ParseIdle ==
    /\ body = NoBody
    /\ statusCode = 0
    /\ statusText = "none"
    /\ method = "none"
    /\ endpoint = "none"
    /\ apiError = NoError

\* no classification predicate has been called
ClassifyIdle ==
    /\ classified = <<>>
    /\ predicate = "none"
    /\ verdict = FALSE

\* validateResponse has not been called
NoResponse == [StatusCode |-> 0, bodyLen |-> 0, ContentLength |-> "",
               ContentType |-> <<>>]
ValidateIdle ==
    /\ response = NoResponse
    /\ validateErr = "none"

Init ==
    /\ middleware \in BOOLEAN
    /\ IF middleware
       THEN \E r \in TokenBodies :
               /\ currentToken = TokenOf(r, 1)
               /\ tokenExpiry = r.ExpiresIn
               /\ endpointCalls = 1
               /\ lastStored = 1
       ELSE /\ currentToken = NoToken
            /\ tokenExpiry = ZeroTime
            /\ endpointCalls = 0
            /\ lastStored = 0
    /\ muWriter = None
    /\ muReaders = {}
    /\ now = 0
    /\ pc = [p \in Procs |-> "idle"]
    /\ op = [p \in Procs |-> "none"]
    /\ stack = [p \in Procs |-> <<>>]
    /\ resp = [p \in Procs |-> NoResp]
    /\ result = [p \in Procs |-> NoResult]
    /\ sent = [p \in Procs |-> NotSent]
    /\ calls = [p \in Procs |-> 0]
    /\ via = [p \in Procs |-> "none"]
    /\ startSerial = [p \in Procs |-> 0]
    /\ sawFailure = [p \in Procs |-> FALSE]
    /\ invalidations = 0
    /\ episodeCalls = IF middleware /\ ~Usable THEN 1 ELSE 0
    /\ WaitIdle
    /\ ServiceIdle
    /\ RetryIdle
    /\ ParseIdle
    /\ ClassifyIdle
    /\ ValidateIdle

\* the goroutine is inside a top-level operation
Active(q) == pc[q] \notin {"idle", "done"}

\* A goroutine begins a top-level operation o at position entry.
Begin(p, o, entry) ==
    /\ pc[p] \in {"idle", "done"}
    /\ op' = [op EXCEPT ![p] = o]
    /\ pc' = [pc EXCEPT ![p] = entry]
    /\ stack' = [stack EXCEPT ![p] =
                    <<IF o = "Execute" THEN "ex_mw" ELSE "top">>]
    /\ result' = [result EXCEPT ![p] = NoResult]
    /\ sent' = [sent EXCEPT ![p] = NotSent]
    /\ calls' = [calls EXCEPT ![p] = 0]
    /\ via' = [via EXCEPT ![p] = "none"]
    /\ startSerial' = [startSerial EXCEPT ![p] = lastStored]
    /\ sawFailure' = [sawFailure EXCEPT ![p] = FALSE]
    /\ UNCHANGED <<middleware, tmVars, muVars, now, endpointCalls, resp,
                   lastStored, invalidations, episodeCalls>>

\* mutant of CallExecute: the request goes out at once with the token that
\* client.SetAuthToken stored at construction, GetToken is not called
CallExecuteClientToken(p) ==
    /\ middleware
    /\ pc[p] \in {"idle", "done"}
    /\ op' = [op EXCEPT ![p] = "Execute"]
    /\ pc' = [pc EXCEPT ![p] = "done"]
    /\ result' = [result EXCEPT ![p] =
                    [token |-> 1, err |-> "none", serial |-> 1]]
    /\ sent' = [sent EXCEPT ![p] = [did |-> TRUE, bearer |-> 1]]
    /\ calls' = [calls EXCEPT ![p] = 0]
    /\ via' = [via EXCEPT ![p] = "none"]
    /\ startSerial' = [startSerial EXCEPT ![p] = lastStored]
    /\ sawFailure' = [sawFailure EXCEPT ![p] = FALSE]
    /\ UNCHANGED <<middleware, tmVars, muVars, now, endpointCalls, stack,
                   resp, lastStored, invalidations, episodeCalls>>

CallGetToken(p) == Begin(p, "GetToken", "gt_rlock")
CallRefreshToken(p) == Begin(p, "RefreshToken", "rt_lock")
CallInvalidateToken(p) == Begin(p, "InvalidateToken", "inv_lock")
\* a request through the client runs the request middleware, which calls
\* tokenManager.GetToken() first
CallExecute(p) == middleware /\ Begin(p, "Execute", "gt_rlock")

\* GetToken / RefreshToken return (tok, err) to whoever called them.
Return(p, tok, err, ser, how) ==
    LET frame == Head(stack[p])
        rest == Tail(stack[p])
    IN  /\ stack' = [stack EXCEPT ![p] = rest]
        /\ via' = [via EXCEPT ![p] = how]
        /\ CASE frame = "top" ->
                  /\ pc' = [pc EXCEPT ![p] = "done"]
                  /\ result' = [result EXCEPT ![p] =
                                  [token |-> tok, err |-> err, serial |-> ser]]
                  /\ resp' = [resp EXCEPT ![p] = NoResp]
                  /\ sent' = sent
             [] frame = "ex_mw" ->
                  \* middleware of SetupAuthentication: on error the request
                  \* is not sent, otherwise req.SetAuthToken(token)
                  /\ pc' = [pc EXCEPT ![p] = "done"]
                  /\ resp' = [resp EXCEPT ![p] = NoResp]
                  /\ IF err /= "none"
                     THEN /\ result' = [result EXCEPT ![p] =
                                  [token |-> 0, err |-> "mw", serial |-> 0]]
                          /\ sent' = sent
                     ELSE /\ result' = [result EXCEPT ![p] =
                                  [token |-> tok, err |-> "none", serial |-> ser]]
                          /\ sent' = [sent EXCEPT ![p] =
                                  [did |-> TRUE, bearer |-> tok]]
             [] frame = "rt_mw" ->
                  \* the same middleware, run for the token POST itself
                  /\ result' = result
                  /\ sent' = sent
                  /\ IF err /= "none"
                     THEN /\ pc' = [pc EXCEPT ![p] = "rt_resp"]
                          /\ resp' = [resp EXCEPT ![p] =
                                  [kind |-> "mwerr", no |-> 0]]
                     ELSE /\ pc' = [pc EXCEPT ![p] = "rt_send"]
                          /\ resp' = resp

\* GetToken: tm.mu.RLock()
GetTokenRLock(p) ==
    /\ pc[p] = "gt_rlock"
    /\ CanRLock
    /\ muReaders' = muReaders \cup {p}
    /\ pc' = [pc EXCEPT ![p] = "gt_check"]
    /\ UNCHANGED <<middleware, tmVars, muWriter, now, endpointCalls, op,
                   stack, resp, result, sent, calls, via, startSerial,
                   lastStored, sawFailure, invalidations, episodeCalls>>

\* GetToken: the check under the read lock, RUnlock, then either return the
\* cached token or fall through to tm.RefreshToken()
GetTokenCheck(p) ==
    /\ pc[p] = "gt_check"
    /\ muReaders' = muReaders \ {p}
    /\ IF Usable
       THEN Return(p, currentToken.AccessToken, "none", currentToken.serial,
                   "cache")
       ELSE /\ pc' = [pc EXCEPT ![p] = "rt_lock"]
            /\ UNCHANGED <<stack, resp, result, sent, via>>
    /\ UNCHANGED <<middleware, tmVars, muWriter, now, endpointCalls, op,
                   calls, startSerial, lastStored, sawFailure,
                   invalidations, episodeCalls>>

\* mutant of RefreshTokenLock: the read lock is taken instead of the write lock
RefreshTokenRLock(p) ==
    /\ pc[p] = "rt_lock"
    /\ CanRLock
    /\ muReaders' = muReaders \cup {p}
    /\ pc' = [pc EXCEPT ![p] = "rt_check"]
    /\ UNCHANGED <<middleware, tmVars, muWriter, now, endpointCalls, op,
                   stack, resp, result, sent, calls, via, startSerial,
                   lastStored, sawFailure, invalidations, episodeCalls>>

\* RefreshToken: tm.mu.Lock()
RefreshTokenLock(p) ==
    /\ pc[p] = "rt_lock"
    /\ CanLock
    /\ muWriter' = p
    /\ pc' = [pc EXCEPT ![p] = "rt_check"]
    /\ UNCHANGED <<middleware, tmVars, muReaders, now, endpointCalls, op,
                   stack, resp, result, sent, calls, via,
                   startSerial, lastStored, sawFailure, invalidations,
                   episodeCalls>>

\* mutant of RefreshTokenDoubleCheck: no double check under the lock
RefreshTokenNoDoubleCheck(p) ==
    /\ pc[p] = "rt_check"
    /\ IF middleware
       THEN /\ stack' = [stack EXCEPT ![p] = <<"rt_mw">> \o @]
            /\ pc' = [pc EXCEPT ![p] = "gt_rlock"]
       ELSE /\ stack' = stack
            /\ pc' = [pc EXCEPT ![p] = "rt_send"]
    /\ UNCHANGED <<middleware, tmVars, muVars, now, endpointCalls, op, resp,
                   result, sent, calls, via, startSerial, lastStored,
                   sawFailure, invalidations, episodeCalls>>

\* RefreshToken: the double check; a usable token is returned (deferred
\* Unlock), otherwise the POST is built and handed to the client, whose
\* request middlewares run before anything is sent
RefreshTokenDoubleCheck(p) ==
    /\ pc[p] = "rt_check"
    /\ IF Usable
       THEN /\ muWriter' = None
            /\ Return(p, currentToken.AccessToken, "none",
                      currentToken.serial, "dcheck")
       ELSE /\ muWriter' = muWriter
            /\ IF middleware
               THEN /\ stack' = [stack EXCEPT ![p] = <<"rt_mw">> \o @]
                    /\ pc' = [pc EXCEPT ![p] = "gt_rlock"]
               ELSE /\ stack' = stack
                    /\ pc' = [pc EXCEPT ![p] = "rt_send"]
            /\ UNCHANGED <<resp, result, sent, via>>
    /\ UNCHANGED <<middleware, tmVars, muReaders, now, endpointCalls, op,
                   calls, startSerial, lastStored, sawFailure,
                   invalidations, episodeCalls>>

\* mutant of RefreshTokenSend: the lock is released before the POST instead
\* of being held across it
RefreshTokenSendUnlocked(p) ==
    /\ pc[p] = "rt_send"
    /\ endpointCalls < MaxCalls
    /\ endpointCalls' = endpointCalls + 1
    /\ resp' = [resp EXCEPT ![p] = [kind |-> "sent", no |-> endpointCalls + 1]]
    /\ calls' = [calls EXCEPT ![p] = @ + 1]
    /\ episodeCalls' = episodeCalls + 1
    /\ pc' = [pc EXCEPT ![p] = "rt_resp"]
    /\ muWriter' = None
    /\ UNCHANGED <<middleware, tmVars, muReaders, now, op, stack, result,
                   sent, via, startSerial, lastStored, sawFailure,
                   invalidations>>

\* RefreshToken: the POST reaches the token endpoint (its answer is awaited)
RefreshTokenSend(p) ==
    /\ pc[p] = "rt_send"
    /\ endpointCalls < MaxCalls
    /\ endpointCalls' = endpointCalls + 1
    /\ resp' = [resp EXCEPT ![p] = [kind |-> "sent", no |-> endpointCalls + 1]]
    /\ calls' = [calls EXCEPT ![p] = @ + 1]
    /\ episodeCalls' = episodeCalls + 1
    /\ pc' = [pc EXCEPT ![p] = "rt_resp"]
    /\ UNCHANGED <<middleware, tmVars, muVars, now, op, stack, result, sent,
                   via, startSerial, lastStored, sawFailure,
                   invalidations>>

\* blocked in tm.mu.Lock() or tm.mu.RLock() behind the goroutine refreshing
Blocked(q) == pc[q] \in {"rt_lock", "gt_rlock"}

\* mutant of HandleResponse: a failed refresh evicts the cached token
HandleResponseEvict(p, r, k) ==
    /\ muWriter' = None
    /\ muReaders' = muReaders
    /\ IF r.kind = "ok"
       THEN LET t == TokenOf(r, k)
            IN  /\ currentToken' = t
                /\ tokenExpiry' = now + t.ExpiresIn
                /\ lastStored' = IF k > lastStored THEN k ELSE lastStored
                /\ invalidations' = 0
                /\ episodeCalls' = IF refreshBuffer < t.ExpiresIn THEN 0
                                   ELSE episodeCalls
                /\ sawFailure' = sawFailure
                /\ Return(p, t.AccessToken, "none", t.serial, "fetch")
       ELSE /\ currentToken' = NoToken
            /\ tokenExpiry' = ZeroTime
            /\ UNCHANGED <<lastStored, invalidations, episodeCalls>>
            /\ sawFailure' = [q \in Procs |->
                                 IF q /= p /\ Blocked(q) THEN TRUE
                                 ELSE sawFailure[q]]
            /\ Return(p, 0, r.kind, 0, "fetch")

\* mutant of HandleResponse: a lifetime that is not positive is taken to mean
\* that the token does not expire
HandleResponseNoExpiry(p, r, k) ==
    /\ muWriter' = None
    /\ muReaders' = muReaders
    /\ IF r.kind = "ok"
       THEN LET t == TokenOf(r, k)
            IN  /\ currentToken' = t
                /\ tokenExpiry' = IF t.ExpiresIn <= 0
                                  THEN now + 1000000
                                  ELSE now + t.ExpiresIn
                /\ lastStored' = IF k > lastStored THEN k ELSE lastStored
                /\ invalidations' = 0
                /\ episodeCalls' = IF refreshBuffer < t.ExpiresIn THEN 0
                                   ELSE episodeCalls
                /\ sawFailure' = sawFailure
                /\ Return(p, t.AccessToken, "none", t.serial, "fetch")
       ELSE /\ UNCHANGED <<tmVars, lastStored, invalidations, episodeCalls>>
            /\ sawFailure' = [q \in Procs |->
                                 IF q /= p /\ Blocked(q) THEN TRUE
                                 ELSE sawFailure[q]]
            /\ Return(p, 0, r.kind, 0, "fetch")

\* mutant of HandleResponse: the failure returns leave tm.mu locked
HandleResponseKeepLock(p, r, k) ==
    /\ muReaders' = muReaders
    /\ IF r.kind = "ok"
       THEN LET t == TokenOf(r, k)
            IN  /\ muWriter' = None
                /\ currentToken' = t
                /\ tokenExpiry' = now + t.ExpiresIn
                /\ lastStored' = IF k > lastStored THEN k ELSE lastStored
                /\ invalidations' = 0
                /\ episodeCalls' = IF refreshBuffer < t.ExpiresIn THEN 0
                                   ELSE episodeCalls
                /\ sawFailure' = sawFailure
                /\ Return(p, t.AccessToken, "none", t.serial, "fetch")
       ELSE /\ muWriter' = muWriter
            /\ UNCHANGED <<tmVars, lastStored, invalidations, episodeCalls>>
            /\ sawFailure' = [q \in Procs |->
                                 IF q /= p /\ Blocked(q) THEN TRUE
                                 ELSE sawFailure[q]]
            /\ Return(p, 0, r.kind, 0, "fetch")

\* RefreshToken after Post returned r: err, resp.IsError() and a failed
\* json.Unmarshal return before anything is stored; a parsed body is stored
\* with tokenExpiry = time.Now() + expires_in.  The deferred Unlock runs.
HandleResponse(p, r, k) ==
    /\ muWriter' = None
    /\ muReaders' = muReaders
    /\ IF r.kind = "ok"
       THEN LET t == TokenOf(r, k)
            IN  /\ currentToken' = t
                /\ tokenExpiry' = now + t.ExpiresIn
                /\ lastStored' = IF k > lastStored THEN k ELSE lastStored
                /\ invalidations' = 0
                /\ episodeCalls' = IF refreshBuffer < t.ExpiresIn THEN 0
                                   ELSE episodeCalls
                /\ sawFailure' = sawFailure
                /\ Return(p, t.AccessToken, "none", t.serial, "fetch")
       ELSE /\ UNCHANGED <<tmVars, lastStored, invalidations, episodeCalls>>
            /\ sawFailure' = [q \in Procs |->
                                 IF q /= p /\ Blocked(q) THEN TRUE
                                 ELSE sawFailure[q]]
            /\ Return(p, 0, r.kind, 0, "fetch")

\* mutant of RefreshTokenReceive: a failed POST is sent once more by the
\* manager itself
RefreshTokenReceiveRetry(p) ==
    /\ pc[p] = "rt_resp"
    /\ \E r \in Responses :
          IF r.kind /= "ok" /\ calls[p] < 2
          THEN /\ pc' = [pc EXCEPT ![p] = "rt_send"]
               /\ UNCHANGED <<tmVars, muVars, stack, resp, result, sent, via,
                              lastStored, sawFailure, invalidations,
                              episodeCalls>>
          ELSE HandleResponse(p, r, resp[p].no)
    /\ UNCHANGED <<middleware, now, endpointCalls, op, calls,
                   startSerial>>

\* RefreshToken: Post returns, either with the endpoint's answer or with the
\* error of a request middleware that stopped the request
RefreshTokenReceive(p) ==
    /\ pc[p] = "rt_resp"
    /\ IF resp[p].kind = "mwerr"
       THEN HandleResponse(p, [kind |-> "request", ExpiresIn |-> 0,
                               hasToken |-> FALSE], 0)
       ELSE \E r \in Responses : HandleResponse(p, r, resp[p].no)
    /\ UNCHANGED <<middleware, now, endpointCalls, op, calls,
                   startSerial>>

\* mutant of InvalidateTokenLock: the token is cleared without waiting for
\* the lock
InvalidateTokenNoLock(p) ==
    /\ pc[p] = "inv_lock"
    /\ pc' = [pc EXCEPT ![p] = "inv_cs"]
    /\ UNCHANGED <<middleware, tmVars, muVars, now, endpointCalls, op,
                   stack, resp, result, sent, calls, via,
                   startSerial, lastStored, sawFailure, invalidations,
                   episodeCalls>>

\* InvalidateToken: tm.mu.Lock()
InvalidateTokenLock(p) ==
    /\ pc[p] = "inv_lock"
    /\ CanLock
    /\ muWriter' = p
    /\ pc' = [pc EXCEPT ![p] = "inv_cs"]
    /\ UNCHANGED <<middleware, tmVars, muReaders, now, endpointCalls, op,
                   stack, resp, result, sent, calls, via,
                   startSerial, lastStored, sawFailure, invalidations,
                   episodeCalls>>

\* mutant of InvalidateTokenClear: the cached token is left in place
InvalidateTokenKeep(p) ==
    /\ pc[p] = "inv_cs"
    /\ invalidations' = IF invalidations < 2 THEN invalidations + 1 ELSE 2
    /\ muWriter' = None
    /\ pc' = [pc EXCEPT ![p] = "done"]
    /\ stack' = [stack EXCEPT ![p] = <<>>]
    /\ UNCHANGED <<middleware, tmVars, muReaders, now, endpointCalls, op,
                   resp, result, sent, calls, via, startSerial, lastStored,
                   sawFailure, episodeCalls>>

\* InvalidateToken: clear the token and the expiry, deferred Unlock
InvalidateTokenClear(p) ==
    /\ pc[p] = "inv_cs"
    /\ currentToken' = NoToken
    /\ tokenExpiry' = ZeroTime
    /\ invalidations' = IF invalidations < 2 THEN invalidations + 1 ELSE 2
    /\ muWriter' = None
    /\ pc' = [pc EXCEPT ![p] = "done"]
    /\ stack' = [stack EXCEPT ![p] = <<>>]
    /\ UNCHANGED <<middleware, muReaders, now, endpointCalls, op, resp,
                   result, sent, calls, via, startSerial, lastStored,
                   sawFailure, episodeCalls>>

\* time passes
Tick ==
    /\ now < MaxTicks * TickSeconds
    /\ now' = now + TickSeconds
    /\ UNCHANGED <<middleware, tmVars, muVars, endpointCalls, pc, op, stack,
                   resp, result, sent, calls, via, startSerial,
                   lastStored, sawFailure, invalidations, episodeCalls>>

\* the rest of the state belongs to other calls and is left alone
otherVars == <<waitVars, svcVars, retryVars, parseVars,
               classVars, validateVars>>

Next ==
    \/ \E p \in Procs : CallGetToken(p) /\ UNCHANGED otherVars
    \/ \E p \in Procs : CallRefreshToken(p) /\ UNCHANGED otherVars
    \/ \E p \in Procs : CallInvalidateToken(p) /\ UNCHANGED otherVars
    \/ \E p \in Procs : CallExecute(p) /\ UNCHANGED otherVars
    \/ \E p \in Procs : GetTokenRLock(p) /\ UNCHANGED otherVars
    \/ \E p \in Procs : GetTokenCheck(p) /\ UNCHANGED otherVars
    \/ \E p \in Procs : RefreshTokenLock(p) /\ UNCHANGED otherVars
    \/ \E p \in Procs : RefreshTokenDoubleCheck(p) /\ UNCHANGED otherVars
    \/ \E p \in Procs : RefreshTokenSend(p) /\ UNCHANGED otherVars
    \/ \E p \in Procs : RefreshTokenReceive(p) /\ UNCHANGED otherVars
    \/ \E p \in Procs : InvalidateTokenLock(p) /\ UNCHANGED otherVars
    \/ \E p \in Procs : InvalidateTokenClear(p) /\ UNCHANGED otherVars
    \/ Tick /\ UNCHANGED otherVars


Spec == Init /\ [][Next]_vars

TypeOK ==
    /\ muWriter \in Procs \cup {None}
    /\ muReaders \subseteq Procs
    /\ \A p \in Procs : Len(stack[p]) <= 2

\* ---------------------------------------------------------------- claims
Done(p, o) == pc[p] = "done" /\ op[p] = o

\* the step in which p's top-level operation returns
Completes(p) == pc[p] /= "done" /\ pc'[p] = "done"

\* the expiry-margin rule of the specification: now + margin < expiry
WithinMargin ==
    currentToken /= NoToken /\ now + TokenRefreshBuffer < tokenExpiry

\* token POSTs whose answer is awaited
InFlight == {p \in Procs : pc[p] = "rt_resp" /\ resp[p].kind = "sent"}

\* C1 (as stated): of the GetToken calls running while the cached token is
\* stale, one contacts the token endpoint in that staleness episode and the
\* others do not (episodeCalls = endpointCalls: the token has been stale
\* ever since construction, so every call so far is of one episode).
C1_OncePerEpisode ==
    \A p, q \in Procs :
        (/\ p /= q
         /\ op[p] = "GetToken" /\ op[q] = "GetToken"
         /\ episodeCalls = endpointCalls) => calls[p] + calls[q] <= 1

\* C1 (amended): at most one token POST is in flight at any time; the
\* endpoint is contacted only while the stored token is stale, so a refresh
\* that stores a usable token is the last call of its episode; and a caller
\* that fell through to RefreshToken and finds a usable token under the lock
\* returns that stored token without a call of its own.
C1_OneRefreshAtATime ==
    /\ [](Cardinality(InFlight) <= 1)
    /\ [][/\ endpointCalls' /= endpointCalls => ~WithinMargin
          /\ \A p \in Procs :
                (Completes(p) /\ pc[p] = "rt_check") =>
                    /\ calls'[p] = 0
                    /\ WithinMargin
                    /\ result'[p].err = "none"
                    /\ op[p] /= "Execute" =>
                          result'[p].token = currentToken.AccessToken]_vars

C1_Witness ==
    \E p, q \in Procs :
        /\ Done(p, "GetToken") /\ via[p] = "dcheck" /\ calls[p] = 0
        /\ result[p].serial = currentToken.serial
        /\ Done(q, "GetToken") /\ via[q] = "fetch" /\ calls[q] = 1
        /\ result[q].serial = result[p].serial

\* C2: on a transport built by SetupAuthentication no GetToken ever waits for
\* tm.mu.RLock while the same goroutine holds tm.mu.Lock (a wait nobody can
\* end, since only that goroutine could unlock).
C2_NeverBlocksOnOwnLock ==
    \A p \in Procs : ~(middleware /\ pc[p] = "gt_rlock" /\ muWriter = p)

\* C3: a GetToken that returns without a token-endpoint call returns the
\* stored token and now + margin is before its expiry; a GetToken that
\* contacted the endpoint found now + margin at or after the expiry (or no
\* token) and returns the token its refresh stored; and the endpoint is never
\* contacted while now + margin is before the stored expiry.
C3_MarginRule ==
    [][/\ endpointCalls' /= endpointCalls => ~WithinMargin
       /\ \A p \in Procs :
             (Completes(p) /\ op[p] = "GetToken") =>
                 /\ calls'[p] = 0 =>
                       /\ WithinMargin
                       /\ result'[p].err = "none"
                       /\ result'[p].token = currentToken.AccessToken
                       /\ UNCHANGED tmVars
                 /\ calls'[p] > 0 =>
                       /\ ~WithinMargin
                       /\ result'[p].err = "none" =>
                             /\ currentToken'.serial > currentToken.serial
                             /\ result'[p].token = currentToken'.AccessToken]_vars

C3_Witness ==
    \E p, q \in Procs :
        /\ Done(p, "GetToken") /\ calls[p] = 0 /\ via[p] = "cache"
        /\ Done(q, "GetToken") /\ calls[q] = 1 /\ result[q].err = "none"
        /\ startSerial[q] > 0

\* C4: every RefreshToken call contacts the token endpoint.
C4_RefreshAlwaysContacts ==
    \A p \in Procs : Done(p, "RefreshToken") => calls[p] >= 1

\* C5: a refresh attempt that fails (transport error, non-2xx status or
\* unparseable body) leaves the stored token and its expiry unchanged; and a
\* GetToken that finds the cached token usable under the margin rule returns
\* that token.
C5_FailedRefreshKeepsToken ==
    [][\A p \in Procs :
          /\ (pc[p] = "rt_resp" /\ pc'[p] = "done" /\ result'[p].err /= "none")
                => UNCHANGED tmVars
          /\ (pc[p] = "gt_check" /\ pc'[p] /= "gt_check" /\ WithinMargin
                  /\ op[p] = "GetToken")
                => /\ pc'[p] = "done"
                   /\ result'[p].err = "none"
                   /\ result'[p].token = currentToken.AccessToken
                   /\ UNCHANGED tmVars]_vars

C5_Witness ==
    \E p \in Procs :
        /\ pc[p] = "done"
        /\ result[p].err \in {"request", "status", "parse"}
        /\ currentToken /= NoToken
        /\ currentToken.serial = lastStored
        /\ endpointCalls > lastStored

InCritical(p) ==
    \/ pc[p] \in {"rt_check", "rt_send", "rt_resp", "inv_cs"}
    \/ Len(stack[p]) = 2

\* C7: at most one goroutine at a time is inside RefreshToken's check /
\* fetch / store section or InvalidateToken's section; it holds tm.mu
\* exclusively, with no reader inside.
C7_RefreshesSerialized ==
    /\ \A p \in Procs : InCritical(p) => muWriter = p
    /\ muWriter /= None => muReaders = {}
    /\ Cardinality({p \in Procs : InCritical(p)}) <= 1

C7_Witness ==
    \E p, q \in Procs :
        /\ pc[p] = "rt_resp" /\ muWriter = p
        /\ pc[q] \in {"rt_lock", "inv_lock"}

\* C8: a GetToken call that returns a token returns one at least as fresh as
\* the newest token stored before the call began.
C8_NeverSuperseded ==
    \A p \in Procs :
        (Done(p, "GetToken") /\ result[p].err = "none")
            => result[p].serial >= startSerial[p]

C8_Witness ==
    \E p \in Procs :
        /\ Done(p, "GetToken") /\ result[p].err = "none"
        /\ calls[p] = 0
        /\ startSerial[p] >= 2
        /\ result[p].serial = startSerial[p]

\* C9 (as stated): a caller that was blocked on the lock while the refresh
\* in flight failed receives an error.
C9_WaitersGetTheError ==
    \A p \in Procs :
        (pc[p] = "done" /\ sawFailure[p]) => result[p].err /= "none"

\* C9 (amended): a failed refresh returns its error to the caller that made
\* the call only; no GetToken or RefreshToken call contacts the endpoint more
\* than once (no retry inside the manager); a caller that was blocked while
\* the refresh failed re-checks under the lock and returns the outcome of
\* its own single call, or the usable token another caller stored meanwhile.
C9_OwnCallOwnError ==
    [][\A p \in Procs :
          /\ calls'[p] <= 1
          /\ (Completes(p) /\ op[p] \in {"GetToken", "RefreshToken"}) =>
                /\ result'[p].err /= "none" =>
                      pc[p] = "rt_resp" /\ calls[p] = 1 /\ UNCHANGED tmVars
                /\ sawFailure[p] =>
                      \/ pc[p] = "rt_resp" /\ calls[p] = 1
                      \/ calls[p] = 0 /\ WithinMargin
                            /\ result'[p].err = "none"]_vars

C9_Witness ==
    \E p, q \in Procs :
        /\ pc[p] = "done" /\ sawFailure[p] /\ calls[p] = 1
        /\ result[p].err = "none"
        /\ pc[q] = "done" /\ result[q].err /= "none" /\ calls[q] = 1

\* C10: a request is sent only in the step in which the GetToken call made
\* for it returns a token, and carries exactly that token, which is the one
\* stored at that moment; a request whose GetToken failed is not sent and
\* ends with the error.
C10_BearerFromGetToken ==
    /\ [](\A p \in Procs :
            /\ sent[p].did => Done(p, "Execute")
            /\ Done(p, "Execute") =>
                  /\ sent[p].did <=> result[p].err = "none"
                  /\ sent[p].did => sent[p].bearer = result[p].token
                  /\ ~sent[p].did => result[p].err = "mw")
    /\ [][\A p \in Procs :
             (sent'[p].did /\ sent'[p] /= sent[p]) =>
                 /\ pc[p] \in {"gt_check", "rt_check", "rt_resp"}
                 /\ currentToken' /= NoToken
                 /\ sent'[p].bearer = currentToken'.AccessToken
                 /\ calls'[p] = 0 => WithinMargin]_vars

C10_Witness ==
    \E p \in Procs :
        /\ Done(p, "Execute") /\ sent[p].did
        /\ sent[p].bearer = currentToken.AccessToken
        /\ now > 0

\* ===========================================================================
\* nql.Service.WaitForExport (nexthink/services/nql/crud.go)
\*
\* One call.  Times are seconds since the call began.  The clock moves from
\* one event to the next: a firing of the ticker, the deadline of timeoutCtx.
\* ===========================================================================

\* -------------------------------------------------------------------- bounds
MaxObserved == 3

\* --------------------------------------------------------- program constants
DefaultPollInterval == 5
DefaultTimeout == 600
MaxQueryIDLength == 256

ExportStatusSubmitted == "SUBMITTED"
ExportStatusInProgress == "IN_PROGRESS"
ExportStatusCompleted == "COMPLETED"
ExportStatusError == "ERROR"

\* what the status endpoint may report
Statuses == {ExportStatusSubmitted, ExportStatusInProgress,
             ExportStatusCompleted, ExportStatusError, "unknown"}

\* export IDs, by their length
ExportIDs == {0, 1, MaxQueryIDLength, MaxQueryIDLength + 1}

\* the arguments <<pollInterval, timeout>>
Durations == {<<0 - 1, 12>>, <<0, 7>>, <<200, 0>>, <<300, 0 - 1>>,
              <<2, 6>>, <<3, 4>>}

\* mutant of isTerminalStatus: ERROR is not taken for terminal
isTerminalStatusCompletedOnly(s) == s = ExportStatusCompleted

isTerminalStatus(s) == s \in {ExportStatusCompleted, ExportStatusError}

\* the error of ValidateExportID for an ID of length n
ValidateExportID(n) ==
    IF n = 0 THEN "export ID cannot be empty"
    ELSE IF n > MaxQueryIDLength THEN "export ID exceeds maximum length"
    ELSE "none"

waitOthers == <<tokenVars, svcVars, retryVars, parseVars,
                classVars, validateVars>>

\* between the call and its return
Waiting == wpc \in {"initial", "select", "poll"}

\* s.GetExportStatus(timeoutCtx, exportID) is called; the request goes out
\* unless the context is done already
CallGetExportStatus ==
    /\ statusCalls' = statusCalls + 1
    /\ statusRequests' = IF ctxErr = "none" THEN statusRequests + 1
                         ELSE statusRequests

\* mutant of WaitForExport: the loop is entered without the initial check
WaitForExportLoopFirst(id, interval, tmo) ==
    /\ wpc = "idle"
    /\ svcCall = NoCall
    /\ exportID' = id
    /\ IF ValidateExportID(id) /= "none"
       THEN /\ wpc' = "done"
            /\ ret' = [status |-> "nil", err |-> "validation",
                       cause |-> ValidateExportID(id)]
            /\ UNCHANGED <<pollInterval, timeout, nextTick, statusCalls,
                           statusRequests>>
       ELSE /\ pollInterval' = IF interval <= 0 THEN DefaultPollInterval
                               ELSE interval
            /\ timeout' = IF tmo <= 0 THEN DefaultTimeout ELSE tmo
            /\ nextTick' = pollInterval'
            /\ wpc' = "select"
            /\ UNCHANGED <<ret, statusCalls, statusRequests>>
    /\ UNCHANGED <<elapsed, tickReady, ctxErr, status, ticksTaken, observed>>
    /\ UNCHANGED waitOthers

\* WaitForExport up to its first blocking point: validation, the defaults,
\* context.WithTimeout, time.NewTicker, and the initial GetExportStatus
WaitForExport(id, interval, tmo) ==
    /\ wpc = "idle"
    /\ svcCall = NoCall
    /\ exportID' = id
    /\ IF ValidateExportID(id) /= "none"
       THEN /\ wpc' = "done"
            /\ ret' = [status |-> "nil", err |-> "validation",
                       cause |-> ValidateExportID(id)]
            /\ UNCHANGED <<pollInterval, timeout, nextTick, statusCalls,
                           statusRequests>>
       ELSE /\ pollInterval' = IF interval <= 0 THEN DefaultPollInterval
                               ELSE interval
            /\ timeout' = IF tmo <= 0 THEN DefaultTimeout ELSE tmo
            /\ nextTick' = pollInterval'
            /\ CallGetExportStatus
            /\ wpc' = "initial"
            /\ ret' = ret
    /\ UNCHANGED <<elapsed, tickReady, ctxErr, status, ticksTaken, observed>>
    /\ UNCHANGED waitOthers

\* why a status call fails while the context is live: no answer (a
\* transport error), or an error answer of the status endpoint
StatusFailures == {"transport", "404 Not Found", "500 Internal Server Error",
                   "503 Service Unavailable", "504 Gateway Timeout"}

\* GetExportStatus returned an error: WaitForExport returns (nil, wrapped)
StatusFailed(cause) ==
    /\ ret' = [status |-> "nil",
               err |-> IF wpc = "initial" THEN "initial" ELSE "poll",
               cause |-> cause]
    /\ status' = "nil"
    /\ wpc' = "done"
    /\ observed' = IF Len(observed) < MaxObserved
                   THEN Append(observed, cause) ELSE observed

\* GetExportStatus returned the status a
StatusObserved(a) ==
    /\ status' = a
    /\ observed' = IF Len(observed) < MaxObserved THEN Append(observed, a)
                   ELSE observed
    /\ IF isTerminalStatus(a)
       THEN /\ wpc' = "done"
            /\ ret' = [status |-> a, err |-> "none", cause |-> "none"]
       ELSE /\ wpc' = "select"
            /\ ret' = ret

\* mutant of StatusReturns: a job in ERROR is returned as a Go error
StatusReturnsJobError ==
    /\ wpc \in {"initial", "poll"}
    /\ IF ctxErr /= "none"
       THEN StatusFailed(ctxErr)
       ELSE \/ StatusFailed("transport")
            \/ \E a \in Statuses \ {ExportStatusError} : StatusObserved(a)
            \/ /\ ret' = [status |-> ExportStatusError, err |-> "poll",
                          cause |-> "job failed"]
               /\ status' = ExportStatusError
               /\ wpc' = "done"
               /\ observed' = IF Len(observed) < MaxObserved
                              THEN Append(observed, ExportStatusError)
                              ELSE observed
    /\ UNCHANGED <<exportID, pollInterval, timeout, elapsed, nextTick,
                   tickReady, ctxErr, statusCalls, statusRequests, ticksTaken>>
    /\ UNCHANGED waitOthers

\* mutant of StatusReturns: an error of a poll is swallowed and the loop
\* goes on
StatusReturnsSwallow ==
    /\ wpc \in {"initial", "poll"}
    /\ IF ctxErr /= "none"
       THEN StatusFailed(ctxErr)
       ELSE \/ IF wpc = "initial" THEN StatusFailed("transport")
               ELSE wpc' = "select" /\ UNCHANGED <<status, ret, observed>>
            \/ \E a \in Statuses : StatusObserved(a)
    /\ UNCHANGED <<exportID, pollInterval, timeout, elapsed, nextTick,
                   tickReady, ctxErr, statusCalls, statusRequests, ticksTaken>>
    /\ UNCHANGED waitOthers

\* the running GetExportStatus returns: the context's error when the context
\* is done, otherwise a transport or API error, or the job's status
StatusReturns ==
    /\ wpc \in {"initial", "poll"}
    /\ IF ctxErr /= "none"
       THEN StatusFailed(ctxErr)
       ELSE \/ \E c \in StatusFailures : StatusFailed(c)
            \/ \E a \in Statuses : StatusObserved(a)
    /\ UNCHANGED <<exportID, pollInterval, timeout, elapsed, nextTick,
                   tickReady, ctxErr, statusCalls, statusRequests, ticksTaken>>
    /\ UNCHANGED waitOthers

\* select: case <-timeoutCtx.Done()
SelectDone ==
    /\ wpc = "select"
    /\ ctxErr /= "none"
    /\ ret' = [status |-> status, err |-> "timeout", cause |-> "none"]
    /\ wpc' = "done"
    /\ UNCHANGED <<exportID, pollInterval, timeout, elapsed, nextTick,
                   tickReady, ctxErr, status, statusCalls, statusRequests,
                   ticksTaken, observed>>
    /\ UNCHANGED waitOthers

\* select: case <-ticker.C, which calls GetExportStatus.  When both cases
\* are ready the runtime picks either.
SelectTick ==
    /\ wpc = "select"
    /\ tickReady
    /\ tickReady' = FALSE
    /\ ticksTaken' = ticksTaken + 1
    /\ CallGetExportStatus
    /\ wpc' = "poll"
    /\ UNCHANGED <<exportID, pollInterval, timeout, elapsed, nextTick, ctxErr,
                   status, ret, observed>>
    /\ UNCHANGED waitOthers

\* time passes up to the next event: the ticker fires (a tick is dropped
\* when ticker.C still holds one), the deadline of timeoutCtx is reached
Advance ==
    /\ Waiting
    /\ elapsed < timeout
    /\ LET t == IF nextTick < timeout THEN nextTick ELSE timeout
       IN  /\ elapsed' = t
           /\ IF t = nextTick
              THEN tickReady' = TRUE /\ nextTick' = nextTick + pollInterval
              ELSE UNCHANGED <<tickReady, nextTick>>
           /\ ctxErr' = IF t >= timeout /\ ctxErr = "none" THEN "deadline"
                        ELSE ctxErr
    /\ UNCHANGED <<exportID, wpc, pollInterval, timeout, status, ret,
                   statusCalls, statusRequests, ticksTaken, observed>>
    /\ UNCHANGED waitOthers

\* the caller cancels ctx, the parent of timeoutCtx
Cancel ==
    /\ Waiting
    /\ ctxErr = "none"
    /\ ctxErr' = "canceled"
    /\ UNCHANGED <<exportID, wpc, pollInterval, timeout, elapsed, nextTick,
                   tickReady, status, ret, statusCalls, statusRequests,
                   ticksTaken, observed>>
    /\ UNCHANGED waitOthers

InitWait == Init /\ ~middleware

NextWait ==
    \/ \E id \in ExportIDs, d \in Durations : WaitForExport(id, d[1], d[2])
    \/ StatusReturns
    \/ SelectDone
    \/ SelectTick
    \/ Advance
    \/ Cancel

SpecWait == InitWait /\ [][NextWait]_vars


\* GetExportStatus, the ticker and the clock are not held up for ever
SpecWaitFair ==
    /\ SpecWait
    /\ WF_vars(StatusReturns)
    /\ WF_vars(SelectDone \/ SelectTick)
    /\ WF_vars(Advance)

\* ------------------------------------------------------------- WaitForExport
Terminal == {"COMPLETED", "ERROR"}

\* this step is GetExportStatus returning a status to WaitForExport
Observes ==
    /\ wpc \in {"initial", "poll"}
    /\ wpc' /= wpc
    /\ status' /= "nil"

\* C11: WaitForExport returns the first status in {COMPLETED, ERROR} it
\* observes, with no status call after it; any other status (SUBMITTED,
\* IN_PROGRESS, an unknown string) sends it back to the select for another
\* poll.  When the statuses observed are SUBMITTED, SUBMITTED, COMPLETED it
\* returns COMPLETED after the initial check and exactly two polls.
C11_StopsAtFirstTerminal ==
    /\ [](wpc \in {"select", "poll"} =>
             /\ status \notin Terminal
             /\ \A i \in 1..Len(observed) : observed[i] \notin Terminal)
    /\ [](wpc = "done" /\ observed = <<"SUBMITTED", "SUBMITTED", "COMPLETED">>
             => /\ ret = [status |-> "COMPLETED", err |-> "none",
                          cause |-> "none"]
                /\ statusCalls = 3
                /\ ticksTaken = 2)
    /\ [][/\ Observes =>
               IF status' \in Terminal
               THEN /\ wpc' = "done"
                    /\ ret' = [status |-> status', err |-> "none",
                               cause |-> "none"]
               ELSE wpc' = "select" /\ ret' = ret
          /\ wpc = "done" => statusCalls' = statusCalls]_vars

C11_Witness ==
    /\ wpc = "done"
    /\ observed = <<"SUBMITTED", "SUBMITTED", "COMPLETED">>
    /\ ret.status = "COMPLETED"

\* C12: the first status call is made at once, before any tick of the
\* ticker is awaited, and when its status is terminal WaitForExport returns
\* it after that one status call.
C12_ImmediateFirstCheck ==
    /\ [](Waiting => statusCalls >= 1)
    /\ [](wpc = "done" /\ Len(observed) = 1 /\ observed[1] \in Terminal
             => /\ statusCalls = 1
                /\ ticksTaken = 0
                /\ ret = [status |-> observed[1], err |-> "none",
                          cause |-> "none"])
    /\ [][statusCalls = 0 /\ statusCalls' > 0
             => statusCalls' = 1 /\ elapsed' = 0 /\ ticksTaken' = 0]_vars

C12_Witness ==
    /\ wpc = "done"
    /\ statusCalls = 1
    /\ elapsed = 0
    /\ ret = [status |-> "COMPLETED", err |-> "none", cause |-> "none"]

\* C13: when the deadline passes before a terminal status was observed,
\* WaitForExport returns the last observed, non-terminal status (not nil)
\* and the timeout error.
C13_TimeoutKeepsLastStatus ==
    wpc = "done" /\ ctxErr = "deadline"
        => /\ ret.err = "timeout"
           /\ ret.status /= "nil"
           /\ ret.status \notin Terminal

C15_StatusErrorEndsWait ==
    \A i \in 1..Len(observed) :
        observed[i] \notin Statuses =>
            /\ i = Len(observed)
            /\ wpc = "done"
            /\ statusCalls = i
            /\ ret = [status |-> "nil",
                      err |-> IF i = 1 THEN "initial" ELSE "poll",
                      cause |-> observed[i]]

C15_Witness ==
    /\ wpc = "done"
    /\ observed = <<"SUBMITTED", "transport">>
    /\ ret.err = "poll"

\* C16: when ctx is cancelled while WaitForExport waits between two polls,
\* it makes no further status call and returns a cancellation error, which
\* is not the timeout error.
C16_CancelIsReported ==
    /\ [](wpc = "done" /\ ctxErr = "canceled" => ret.cause = "canceled")
    /\ [][statusCalls' > statusCalls => ctxErr /= "canceled"]_vars

\* C17: WaitForExport always returns, for a job that never gets terminal once
\* the timeout has passed, and it starts no status call after the deadline.
C17_TerminatesWithoutLateCall ==
    /\ (Waiting ~> wpc = "done")
    /\ [][statusCalls' > statusCalls => ctxErr /= "deadline"]_vars

\* the part of C17 that holds: every call of WaitForExport returns
C17_Terminates == Waiting ~> wpc = "done"


\* ===========================================================================
\* The other methods of nql.Service (crud.go) and their validators
\* (validators.go).  Strings are kept by what the validators look at: the
\* length and, for a query ID, whether it starts with '#'.
\* ===========================================================================
MaxPlatformLength == 50
MaxRetries == 3

ExportFormatCSV == "csv"
ExportFormatJSON == "json"

QueryIDs == {[len |-> 0, hash |-> FALSE]}
            \cup [len : {1, MaxQueryIDLength, MaxQueryIDLength + 1},
                  hash : BOOLEAN]
Platforms == {0, MaxPlatformLength, MaxPlatformLength + 1}
NilRequest == [nil |-> TRUE]
ExecuteRequests ==
    {NilRequest} \cup [nil : {FALSE}, QueryID : QueryIDs,
                       Platform : Platforms]
ExportRequests ==
    {NilRequest} \cup [nil : {FALSE}, QueryID : QueryIDs,
                       Platform : Platforms,
                       Format : {"", ExportFormatCSV, ExportFormatJSON, "xml"}]
DownloadURLs == {"", "https://s3/export.csv", "://malformed"}

validateQueryID(q) ==
    IF q.len = 0 THEN "query ID is required"
    ELSE IF ~q.hash THEN "query ID must start with '#'"
    ELSE IF q.len > MaxQueryIDLength THEN "query ID exceeds maximum length"
    ELSE "none"

ValidateExecuteRequest(req) ==
    IF req.nil THEN "execute request cannot be nil"
    ELSE IF validateQueryID(req.QueryID) /= "none"
         THEN validateQueryID(req.QueryID)
    ELSE IF req.Platform /= 0 /\ req.Platform > MaxPlatformLength
         THEN "platform exceeds maximum length"
    ELSE "none"

ValidateExportRequest(req) ==
    IF req.nil THEN "export request cannot be nil"
    ELSE IF validateQueryID(req.QueryID) /= "none"
         THEN validateQueryID(req.QueryID)
    ELSE IF req.Platform /= 0 /\ req.Platform > MaxPlatformLength
         THEN "platform exceeds maximum length"
    ELSE IF req.Format /= "" /\ req.Format /= ExportFormatCSV
                             /\ req.Format /= ExportFormatJSON
         THEN "format must be either 'csv' or 'json'"
    ELSE "none"

svcOthers == <<tokenVars, waitVars, retryVars, parseVars,
               classVars, validateVars>>

\* n requests in a row, all alike
Repeat(r, n) == [i \in 1..n |-> r]

\* s.client.Get / s.client.Post: the request middleware asks the token
\* manager for a token; without one the request is not sent, otherwise it
\* goes out with the bearer token, again while the retry policy of the
\* client says so, and succeeds or fails
ClientRequest(verb) ==
    /\ tokenRequests' = tokenRequests + 1
    /\ httpRequests' = httpRequests + 1
    /\ \/ /\ sentRequests' = <<>>
          /\ svcErr' = "request failed"
       \/ /\ \E n \in 1..(1 + MaxRetries) :
                sentRequests' = Repeat([client |-> "resty", Method |-> verb,
                                        Authorization |-> "Bearer"], n)
          /\ svcErr' \in {"none", "request failed"}

\* a method that validates its argument and then sends one request
Method(name, verb, arg, invalid) ==
    /\ svcCall = NoCall
    /\ wpc = "idle"
    /\ svcCall' = [method |-> name, arg |-> arg]
    /\ IF invalid /= "none"
       THEN /\ svcErr' = invalid
            /\ UNCHANGED <<httpRequests, tokenRequests, sentRequests>>
       ELSE ClientRequest(verb)

\* mutant of ExecuteV1: the request is sent and validated afterwards
ExecuteV1ValidateLate(req) ==
    /\ svcCall = NoCall
    /\ wpc = "idle"
    /\ svcCall' = [method |-> "ExecuteV1", arg |-> req]
    /\ tokenRequests' = tokenRequests + 1
    /\ httpRequests' = httpRequests + 1
    /\ sentRequests' = <<[client |-> "resty", Method |-> "POST",
                          Authorization |-> "Bearer"]>>
    /\ svcErr' \in IF ValidateExecuteRequest(req) /= "none"
                   THEN {ValidateExecuteRequest(req)}
                   ELSE {"none", "request failed"}
    /\ UNCHANGED svcOthers

\* ExecuteV1 .. GetExportStatus: validate, then one request
ExecuteV1(req) ==
    /\ Method("ExecuteV1", "POST", req, ValidateExecuteRequest(req))
    /\ UNCHANGED svcOthers

ExecuteV2(req) ==
    /\ Method("ExecuteV2", "POST", req, ValidateExecuteRequest(req))
    /\ UNCHANGED svcOthers

StartExport(req) ==
    /\ Method("StartExport", "POST", req, ValidateExportRequest(req))
    /\ UNCHANGED svcOthers

GetExportStatus(id) ==
    /\ Method("GetExportStatus", "GET", id, ValidateExportID(id))
    /\ UNCHANGED svcOthers

\* mutant of DownloadExport: the download goes through s.client, the
\* authenticated client of the service
DownloadExportThroughClient(url) ==
    /\ svcCall = NoCall
    /\ wpc = "idle"
    /\ svcCall' = [method |-> "DownloadExport", arg |-> url]
    /\ IF url = ""
       THEN /\ svcErr' = "download URL cannot be empty"
            /\ UNCHANGED <<httpRequests, tokenRequests, sentRequests>>
       ELSE ClientRequest("GET")
    /\ UNCHANGED svcOthers

\* DownloadExport uses an http.Client of its own, made for the call: no
\* token is asked for, the request built by http.NewRequestWithContext has
\* no header, and client.Do sends it once
DownloadExport(url) ==
    /\ svcCall = NoCall
    /\ wpc = "idle"
    /\ svcCall' = [method |-> "DownloadExport", arg |-> url]
    /\ tokenRequests' = tokenRequests
    /\ IF url = ""
       THEN /\ svcErr' = "download URL cannot be empty"
            /\ UNCHANGED <<httpRequests, sentRequests>>
       ELSE IF url = "://malformed"
       THEN /\ svcErr' = "failed to create download request"
            /\ UNCHANGED <<httpRequests, sentRequests>>
       ELSE /\ httpRequests' = httpRequests + 1
            /\ sentRequests' = <<[client |-> "http.Client", Method |-> "GET",
                                  Authorization |-> ""]>>
            /\ svcErr' \in {"none", "failed to download export",
                            "download failed with status",
                            "failed to read export data"}
    /\ UNCHANGED svcOthers

NextService ==
    \/ \E req \in ExecuteRequests : ExecuteV1(req)
    \/ \E req \in ExecuteRequests : ExecuteV2(req)
    \/ \E req \in ExportRequests : StartExport(req)
    \/ \E id \in ExportIDs : GetExportStatus(id)
    \/ \E url \in DownloadURLs : DownloadExport(url)
    \/ NextWait

\* the service is called on either construction of the client, with or
\* without a stored token
SpecService == Init /\ [][NextService]_vars

\* ------------------------------------------------------------ validation
\* the argument of the call made is one the validators reject
BadQueryID(q) == q.len = 0 \/ ~q.hash \/ q.len > 256
BadArgument ==
    CASE svcCall.method \in {"ExecuteV1", "ExecuteV2"} ->
            \/ svcCall.arg.nil
            \/ BadQueryID(svcCall.arg.QueryID)
            \/ svcCall.arg.Platform > 50
      [] svcCall.method = "StartExport" ->
            \/ svcCall.arg.nil
            \/ BadQueryID(svcCall.arg.QueryID)
            \/ svcCall.arg.Platform > 50
            \/ svcCall.arg.Format \notin {"", "csv", "json"}
      [] svcCall.method = "GetExportStatus" ->
            svcCall.arg = 0 \/ svcCall.arg > 256
      [] svcCall.method = "DownloadExport" -> svcCall.arg = ""
      [] OTHER -> FALSE

\* C18: a call whose argument fails validation (export ID empty or too long
\* in GetExportStatus and WaitForExport; request nil or malformed in
\* ExecuteV1, ExecuteV2 and StartExport; empty URL in DownloadExport) returns
\* the validation error, sends no request and asks for no token.
C18_InvalidInputStaysLocal ==
    /\ BadArgument =>
          /\ svcErr \notin {"none", "request failed"}
          /\ httpRequests = 0
          /\ tokenRequests = 0
    /\ wpc /= "idle" /\ (exportID = 0 \/ exportID > 256) =>
          /\ wpc = "done"
          /\ ret.status = "nil" /\ ret.err = "validation"
          /\ statusCalls = 0
          /\ statusRequests = 0

C18_Witness ==
    /\ svcCall.method = "ExecuteV1"
    /\ ~svcCall.arg.nil
    /\ ~svcCall.arg.QueryID.hash
    /\ svcErr = "query ID must start with '#'"

\* C24: DownloadExport sends one plain GET on an HTTP client of its own: the
\* request carries no bearer token, neither GetToken nor RefreshToken is
\* called, the request is not sent again by the retry policy of the
\* transport, and the stored token and its expiry stay as they were.
C24_DownloadIsUnauthenticated ==
    [][svcCall = NoCall /\ svcCall'.method = "DownloadExport" =>
          /\ Len(sentRequests') <= 1
          /\ svcCall'.arg = "https://s3/export.csv"
                => sentRequests' = <<[client |-> "http.Client",
                                      Method |-> "GET",
                                      Authorization |-> ""]>>
          /\ tokenRequests' = tokenRequests
          /\ endpointCalls' = endpointCalls
          /\ currentToken' = currentToken
          /\ tokenExpiry' = tokenExpiry]_vars

C24_Witness ==
    /\ svcCall.method = "DownloadExport"
    /\ svcErr = "none"
    /\ Len(sentRequests) = 1
    /\ currentToken /= NoToken
    /\ tokenRequests = 0


\* ===========================================================================
\* One request through the resty client that NewTransport configures
\* (SetRetryCount, part_011 51-58; no retry condition is added, so the
\* client's default ones apply).  The client sends the request again after a
\* network failure, a 5xx answer other than 501, or a 429 (rate limiting,
\* docs/api_client_spec.md 58-65), while retries are left and the request
\* may be repeated; any other answer is returned as it is.
\* ===========================================================================
\* restyClient.SetRetryCount(MaxRetries)
DefaultRetryCount == MaxRetries

\* mutant of ConfiguredRetryCount: the default allows one retry too many
ConfiguredRetryCountOneMore(opt) ==
    IF opt = <<>> THEN MaxRetries + 1 ELSE opt[1]

\* the retry count of the client: the default unless WithRetryCount gave one
ConfiguredRetryCount(opt) ==
    IF opt = <<>> THEN DefaultRetryCount ELSE opt[1]

\* the options given to NewTransport: none, or WithRetryCount(n)
RetryOptions == {<<>>, <<0>>, <<1>>}

\* what comes back for one attempt: a status code, or no answer at all
NetworkFailure == 0 - 1
Answers == {200, 400, 404, 429, 500, 503, NetworkFailure}

StatusTooManyRequests == 429
ServerError(a) == a >= 500 /\ a /= 501
Retriable(a) ==
    a = NetworkFailure \/ ServerError(a) \/ a = StatusTooManyRequests

retryOthers == <<tokenVars, waitVars, svcVars, parseVars,
                 classVars, validateVars>>

\* a request is executed on a client built with the option opt
Execute(opt) ==
    /\ rpc = "idle"
    /\ retryCount' = ConfiguredRetryCount(opt)
    /\ rpc' = "sending"
    /\ UNCHANGED <<attempts, answers, outcome>>
    /\ UNCHANGED retryOthers

\* the request goes out (again)
SendAttempt ==
    /\ rpc = "sending"
    /\ attempts' = attempts + 1
    /\ rpc' = "waiting"
    /\ UNCHANGED <<retryCount, answers, outcome>>
    /\ UNCHANGED retryOthers

\* the attempt is answered: a retry candidate is sent again while retries
\* are left (unless the request is one the client does not repeat, such as
\* a POST), any other answer is returned
ReceiveAnswer(a) ==
    /\ rpc = "waiting"
    /\ answers' = Append(answers, a)
    /\ \/ /\ Retriable(a) /\ attempts <= retryCount
          /\ rpc' = "sending" /\ outcome' = outcome
       \/ rpc' = "done" /\ outcome' = a
    /\ UNCHANGED <<retryCount, attempts>>
    /\ UNCHANGED retryOthers

NextRetry ==
    \/ \E opt \in RetryOptions : Execute(opt)
    \/ SendAttempt
    \/ \E a \in Answers : ReceiveAnswer(a)

SpecRetry == InitWait /\ [][NextRetry]_vars

StatusBadRequest == 400
StatusUnauthorized == 401
StatusForbidden == 403
StatusNotFound == 404
StatusConflict == 409
StatusUnprocessableEntity == 422
StatusInternalServerError == 500
StatusBadGateway == 502
StatusServiceUnavailable == 503
StatusGatewayTimeout == 504

StatusCodes == {StatusBadRequest, StatusUnauthorized, StatusForbidden,
                StatusNotFound, StatusConflict, StatusUnprocessableEntity,
                StatusTooManyRequests, StatusInternalServerError,
                StatusBadGateway, StatusServiceUnavailable,
                StatusGatewayTimeout, 418}
StatusTexts == {"", "Bad Request"}
Methods == {"GET", "POST"}
Endpoints == {"/api/v1/nql/execute"}

Field(val) == {Absent, [t |-> "string", v |-> ""],
               [t |-> "string", v |-> val], [t |-> "number", v |-> "5"]}
ErrorFields ==
    {[is |-> k, code |-> "", message |-> "", details |-> ""] :
        k \in {"absent", "null", "string"}}
    \cup [is : {"object"}, code : {"", "EC"}, message : {"", "EM"},
          details : {"", "ED"}]
Bodies ==
    {[NoBody EXCEPT !.kind = k] : k \in {"empty", "text", "null", "array"}}
    \cup [kind : {"object"}, error : ErrorFields, message : Field("TM"),
          code : Field("TC")]

\* "a,b", leaving out an empty side
Join(a, b) == IF a = "" THEN b ELSE IF b = "" THEN a ELSE a \o "," \o b

FieldText(name, f) ==
    IF f.t = "absent" THEN ""
    ELSE IF f.t = "number" THEN "\"" \o name \o "\":" \o f.v
    ELSE "\"" \o name \o "\":\"" \o f.v \o "\""

ErrorText(e) ==
    CASE e.is = "absent" -> ""
      [] e.is = "null" -> "\"error\":null"
      [] e.is = "string" -> "\"error\":\"failed\""
      [] e.is = "object" ->
            "\"error\":{\"code\":\"" \o e.code \o "\",\"message\":\""
                \o e.message \o "\",\"details\":\"" \o e.details \o "\"}"

\* string(body)
Text(b) ==
    CASE b.kind = "empty" -> ""
      [] b.kind = "text" -> "upstream connect error"
      [] b.kind = "null" -> "null"
      [] b.kind = "array" -> "[]"
      [] b.kind = "object" ->
            "{" \o Join(ErrorText(b.error),
                        Join(FieldText("message", b.message),
                             FieldText("code", b.code))) \o "}"

\* json.Unmarshal(body, &errResp): whether it succeeded, and errResp
Unmarshal(b) ==
    [ok |-> \/ b.kind = "null"
            \/ /\ b.kind = "object"
               /\ b.error.is /= "string"
               /\ b.message.t /= "number"
               /\ b.code.t /= "number",
     hasError |-> b.kind = "object" /\ b.error.is = "object",
     Error |-> b.error,
     Message |-> IF b.kind = "object" /\ b.message.t = "string"
                 THEN b.message.v ELSE "",
     Code |-> IF b.kind = "object" /\ b.code.t = "string"
              THEN b.code.v ELSE ""]

getDefaultErrorMessage(c) ==
    CASE c = StatusBadRequest -> "The API request is invalid or malformed"
      [] c = StatusUnauthorized ->
            "Authentication required or invalid credentials"
      [] c = StatusForbidden ->
            "You are not allowed to perform the requested operation"
      [] c = StatusNotFound -> "The requested resource was not found"
      [] c = StatusConflict -> "The resource already exists"
      [] c = StatusUnprocessableEntity -> "Validation error"
      [] c = StatusTooManyRequests ->
            "Rate limit exceeded. Too many requests in a given time period"
      [] c = StatusInternalServerError -> "Internal server error"
      [] c = StatusBadGateway -> "Bad gateway"
      [] c = StatusServiceUnavailable ->
            "Service temporarily unavailable. Retry might work"
      [] c = StatusGatewayTimeout ->
            "The operation took too long to complete"
      [] OTHER -> "Unknown error"

\* the raw body as message, or the default message for an empty body
RawOrDefault(e, b, c) ==
    [e EXCEPT !.Message = IF Text(b) = "" THEN getDefaultErrorMessage(c)
                          ELSE Text(b)]

\* mutant of ParseErrorResponse: the top-level fields win over the nested
\* error object
ParseErrorResponseTopFirst(b, c, st, m, ep) ==
    LET new == [Code |-> "", Message |-> "", Details |-> "",
                StatusCode |-> c, Status |-> st, Endpoint |-> ep,
                Method |-> m]
        u == Unmarshal(b)
        got == IF u.Message /= "" \/ u.Code /= "" \/ ~u.hasError
               THEN [new EXCEPT !.Message = u.Message, !.Code = u.Code]
               ELSE [new EXCEPT !.Code = u.Error.code,
                                !.Message = u.Error.message,
                                !.Details = u.Error.details]
    IN  IF u.ok /\ (got.Code /= "" \/ got.Message /= "") THEN got
        ELSE RawOrDefault(IF u.ok THEN got ELSE new, b, c)

\* the *APIError that ParseErrorResponse returns
ParseErrorResponse(b, c, st, m, ep) ==
    LET new == [Code |-> "", Message |-> "", Details |-> "",
                StatusCode |-> c, Status |-> st, Endpoint |-> ep,
                Method |-> m]
        u == Unmarshal(b)
        got == IF u.hasError
               THEN [new EXCEPT !.Code = u.Error.code,
                                !.Message = u.Error.message,
                                !.Details = u.Error.details]
               ELSE [new EXCEPT !.Message = u.Message, !.Code = u.Code]
    IN  IF u.ok /\ (got.Code /= "" \/ got.Message /= "") THEN got
        ELSE RawOrDefault(IF u.ok THEN got ELSE new, b, c)

parseOthers == <<tokenVars, waitVars, svcVars, retryVars,
                 classVars, validateVars>>

\* a call of ParseErrorResponse
CallParseErrorResponse(b, c, st, m, ep) ==
    /\ apiError = NoError
    /\ body' = b
    /\ statusCode' = c
    /\ statusText' = st
    /\ method' = m
    /\ endpoint' = ep
    /\ apiError' = ParseErrorResponse(b, c, st, m, ep)
    /\ UNCHANGED parseOthers

NextParse ==
    \E b \in Bodies, c \in StatusCodes, st \in StatusTexts, m \in Methods,
       ep \in Endpoints : CallParseErrorResponse(b, c, st, m, ep)

SpecParse == InitWait /\ [][NextParse]_vars


\* -------------------------------------------------------- ParseErrorResponse
\* the body is JSON that fits genericErrorResponse
Parses ==
    \/ body.kind = "null"
    \/ /\ body.kind = "object"
       /\ body.error.is \in {"absent", "null", "object"}
       /\ body.message.t /= "number"
       /\ body.code.t /= "number"

\* ... and holds a nested error object
Nested == Parses /\ body.kind = "object" /\ body.error.is = "object"

\* the code and message the body offers: those of the nested error object
\* when there is one, the top-level ones otherwise
Offered ==
    IF Nested THEN [code |-> body.error.code, message |-> body.error.message]
    ELSE IF Parses /\ body.kind = "object"
    THEN [code |-> IF body.code.t = "string" THEN body.code.v ELSE "",
          message |-> IF body.message.t = "string" THEN body.message.v
                      ELSE ""]
    ELSE [code |-> "", message |-> ""]

\* C20: ParseErrorResponse takes code, message and details from a nested
\* error object; without one, the top-level message and code; when that has
\* given neither a code nor a message (or the body does not parse), the raw
\* body text is the message; and for an empty body the fixed default message
\* of the status code ("Unknown error" for a code not listed).  The APIError
\* always carries the status code, status text, method and endpoint given.
C20_ResolutionOrder ==
    apiError /= NoError =>
        /\ apiError.StatusCode = statusCode
        /\ apiError.Status = statusText
        /\ apiError.Method = method
        /\ apiError.Endpoint = endpoint
        /\ IF Offered.code /= "" \/ Offered.message /= ""
           THEN /\ apiError.Code = Offered.code
                /\ apiError.Message = Offered.message
                /\ apiError.Details = IF Nested THEN body.error.details
                                      ELSE ""
           ELSE /\ apiError.Code = ""
                /\ apiError.Message =
                      IF body.kind = "empty"
                      THEN getDefaultErrorMessage(statusCode)
                      ELSE Text(body)
                /\ apiError.Message /= ""
        /\ body.kind = "empty" /\ statusCode = 503 =>
              apiError.Message =
                  "Service temporarily unavailable. Retry might work"
        /\ body.kind = "empty" /\ statusCode = 418 =>
              apiError.Message = "Unknown error"

C20_Witness ==
    /\ body.kind = "object"
    /\ body.error.is = "object"
    /\ body.message.v = "TM"
    /\ apiError.Code = "EC"
    /\ apiError.Message = "EM"
    /\ apiError.Details = "ED"
    /\ apiError.StatusCode = 400


\* ===========================================================================
\* The classification predicates of errors.go.  A Go error is kept as the
\* chain of its layers, outermost first: <<>> is the nil error, an *APIError
\* is one layer with its StatusCode, errors.New gives an errorString, and
\* fmt.Errorf with %w puts a wrapError around the error it is given.
\* ===========================================================================
NilError == <<>>
APIErr(c) == <<[type |-> "*APIError", StatusCode |-> c]>>
ErrorString == <<[type |-> "*errorString", StatusCode |-> 0]>>
Wrap(e) == <<[type |-> "*wrapError", StatusCode |-> 0]>> \o e

ClassifiedCodes == {0, 200, 399, 400, 401, 403, 404, 409, 418, 422, 429, 499,
                    500, 501, 502, 503, 504, 599, 600}
Errors ==
    {NilError, ErrorString, Wrap(ErrorString)}
        \cup {APIErr(c) : c \in ClassifiedCodes}
        \cup {Wrap(APIErr(c)) : c \in ClassifiedCodes}

\* apiErr, ok := err.(*APIError): the assertion looks at the dynamic type of
\* err, that is at the outermost layer
IsAPIError(e) == Len(e) > 0 /\ e[1].type = "*APIError"

IsBadRequest(e) == IsAPIError(e) /\ e[1].StatusCode = StatusBadRequest
IsUnauthorized(e) == IsAPIError(e) /\ e[1].StatusCode = StatusUnauthorized
IsForbidden(e) == IsAPIError(e) /\ e[1].StatusCode = StatusForbidden
IsNotFound(e) == IsAPIError(e) /\ e[1].StatusCode = StatusNotFound
IsConflict(e) == IsAPIError(e) /\ e[1].StatusCode = StatusConflict
IsValidationError(e) ==
    IsAPIError(e) /\ e[1].StatusCode = StatusUnprocessableEntity
IsRateLimited(e) == IsAPIError(e) /\ e[1].StatusCode = StatusTooManyRequests
IsServerError(e) ==
    IsAPIError(e) /\ e[1].StatusCode >= 500 /\ e[1].StatusCode < 600

\* mutant of IsTransient: every server error counts as transient
IsTransientAnyServerError(e) ==
    IsAPIError(e) /\ e[1].StatusCode >= 500 /\ e[1].StatusCode < 600

IsTransient(e) ==
    IsAPIError(e) /\ (\/ e[1].StatusCode = StatusServiceUnavailable
                      \/ e[1].StatusCode = StatusGatewayTimeout)

Predicates == {"IsBadRequest", "IsUnauthorized", "IsForbidden", "IsNotFound",
               "IsConflict", "IsValidationError", "IsRateLimited",
               "IsServerError", "IsTransient"}

\* the predicate named p applied to e
Holds(p, e) ==
    CASE p = "IsBadRequest" -> IsBadRequest(e)
      [] p = "IsUnauthorized" -> IsUnauthorized(e)
      [] p = "IsForbidden" -> IsForbidden(e)
      [] p = "IsNotFound" -> IsNotFound(e)
      [] p = "IsConflict" -> IsConflict(e)
      [] p = "IsValidationError" -> IsValidationError(e)
      [] p = "IsRateLimited" -> IsRateLimited(e)
      [] p = "IsServerError" -> IsServerError(e)
      [] p = "IsTransient" -> IsTransient(e)

classOthers == <<tokenVars, waitVars, svcVars, retryVars, parseVars,
                 validateVars>>

\* a caller asks one predicate about one error
CallPredicate(p, e) ==
    /\ classified' = e
    /\ predicate' = p
    /\ verdict' = Holds(p, e)
    /\ UNCHANGED classOthers

NextClassify == \E p \in Predicates, e \in Errors : CallPredicate(p, e)

SpecClassify == InitWait /\ [][NextClassify]_vars

\* -------------------------------------------------------- classification
\* the status codes for which the predicate named p is to hold
CodesOf(p) ==
    CASE p = "IsBadRequest" -> {400}
      [] p = "IsUnauthorized" -> {401}
      [] p = "IsForbidden" -> {403}
      [] p = "IsNotFound" -> {404}
      [] p = "IsConflict" -> {409}
      [] p = "IsValidationError" -> {422}
      [] p = "IsRateLimited" -> {429}
      [] p = "IsServerError" -> 500..599
      [] p = "IsTransient" -> {503, 504}

\* C21: a predicate looks at nothing but the status code of the *APIError it
\* is given: IsTransient holds exactly for 503 and 504, IsServerError for
\* 500..599, and IsBadRequest, IsUnauthorized, IsForbidden, IsNotFound,
\* IsConflict, IsValidationError, IsRateLimited for 400, 401, 403, 404, 409,
\* 422, 429; every predicate is false for the nil error and for an error
\* whose type is not *APIError.
C21_PredicatesByStatusCode ==
    predicate /= "none" =>
        IF classified /= <<>> /\ classified[1].type = "*APIError"
        THEN verdict <=> classified[1].StatusCode \in CodesOf(predicate)
        ELSE verdict = FALSE

C21_Witness ==
    /\ predicate = "IsTransient"
    /\ classified = APIErr(504)
    /\ verdict = TRUE

\* ------------------------------------------- the errors of WaitForExport
\* the status code of an error answer of the status endpoint
StatusCodeOf(cause) ==
    CASE cause = "404 Not Found" -> StatusNotFound
      [] cause = "500 Internal Server Error" -> StatusInternalServerError
      [] cause = "503 Service Unavailable" -> StatusServiceUnavailable
      [] cause = "504 Gateway Timeout" -> StatusGatewayTimeout

\* the error s.client.Get hands to GetExportStatus, which returns it as it
\* is: the *APIError of ParseErrorResponse for an error answer, and an error
\* of the HTTP client (around the context's error when the context is done)
\* otherwise
ClientGetError(cause) ==
    IF cause \in {"transport", "deadline", "canceled"}
    THEN Wrap(ErrorString)
    ELSE APIErr(StatusCodeOf(cause))

\* the error WaitForExport returned: nil with a terminal status, the
\* validation error, fmt.Errorf("timeout waiting ...") without %w, or
\* fmt.Errorf("failed to get [initial] export status: %w", err)
ReturnedError ==
    CASE ret.err = "none" -> NilError
      [] ret.err \in {"validation", "timeout"} -> ErrorString
      [] ret.err \in {"initial", "poll"} -> Wrap(ClientGetError(ret.cause))

\* the text of the error WaitForExport returned, in pieces: the text of
\* fmt.Errorf and, after %w, the text of the error of the status call
CauseText(cause) ==
    CASE cause = "deadline" -> "context deadline exceeded"
      [] cause = "canceled" -> "context canceled"
      [] OTHER -> cause

ReturnedText ==
    CASE ret.err = "none" -> <<>>
      [] ret.err = "validation" -> <<ret.cause>>
      [] ret.err = "timeout" ->
            <<"timeout waiting for export to complete after">>
      [] ret.err = "initial" ->
            <<"failed to get initial export status", CauseText(ret.cause)>>
      [] ret.err = "poll" ->
            <<"failed to get export status", CauseText(ret.cause)>>

\* C22: the error WaitForExport returns after a status call was answered 503
\* or 504 satisfies IsTransient and IsServerError, and the error it returns
\* on a timeout satisfies none of the predicates.
C22_WaitErrorsClassified ==
    wpc = "done" =>
        /\ ret.cause \in {"503 Service Unavailable", "504 Gateway Timeout"}
              => /\ IsTransient(ReturnedError)
                 /\ IsServerError(ReturnedError)
        /\ ret.err = "timeout"
              => \A p \in Predicates : ~Holds(p, ReturnedError)

\* C27: when WaitForExport gives up because the deadline passed while it was
\* polling a job that stays SUBMITTED, the error it returns reports
\* "context deadline exceeded".
C27_TimeoutReportsDeadline ==
    (/\ wpc = "done"
     /\ ctxErr = "deadline"
     /\ ret.err /= "none"
     /\ Len(observed) >= 1
     /\ \A i \in 1..Len(observed) :
           observed[i] \in {"SUBMITTED", "deadline"})
        => \E i \in 1..Len(ReturnedText) :
              ReturnedText[i] = "context deadline exceeded"


\* ===========================================================================
\* Transport.validateResponse (response.go).  A response is kept by what the
\* function reads: the status code, the length of the body, and the values
\* of the Content-Length and Content-Type headers (Header.Get gives "" for a
\* header that is absent).  A Content-Type value is a sequence of pieces, so
\* that strings.HasPrefix is computed on it.
\* ===========================================================================
ApplicationJSON == <<"application/json">>
ContentTypes == {<<>>, ApplicationJSON,
                 <<"application/json", "; charset=utf-8">>,
                 <<"application/", "xml">>, <<"Application/JSON">>,
                 <<"text/csv">>, <<"text/html", "; charset=utf-8">>}
ContentLengths == {"", "0", "5"}
ResponseCodes == {200, 201, 204, 302, 399, 400, 404, 500}
HTTPResponses == [StatusCode : ResponseCodes, bodyLen : {0, 5},
               ContentLength : ContentLengths, ContentType : ContentTypes]

\* strings.HasPrefix(s, prefix)
HasPrefix(s, prefix) ==
    Len(s) >= Len(prefix) /\ SubSeq(s, 1, Len(prefix)) = prefix

\* resty's Response.IsError: the status code is above 399
IsError(r) == r.StatusCode > 399

\* mutant of validateResponse: error responses are validated as well
validateResponseErrorsToo(r) ==
    IF r.ContentLength = "0" \/ r.bodyLen = 0 THEN "none"
    ELSE IF /\ r.bodyLen > 0
            /\ r.ContentType /= <<>>
            /\ ~HasPrefix(r.ContentType, ApplicationJSON)
    THEN "unexpected response Content-Type"
    ELSE "none"

validateResponse(r) ==
    IF r.ContentLength = "0" \/ r.bodyLen = 0 THEN "none"
    ELSE IF /\ ~IsError(r) /\ r.bodyLen > 0
            /\ r.ContentType /= <<>>
            /\ ~HasPrefix(r.ContentType, ApplicationJSON)
    THEN "unexpected response Content-Type"
    ELSE "none"

validateOthers == <<tokenVars, waitVars, svcVars, retryVars, parseVars,
                    classVars>>

\* a call of validateResponse
CallValidateResponse(r) ==
    /\ response' = r
    /\ validateErr' = validateResponse(r)
    /\ UNCHANGED validateOthers

NextValidate == \E r \in HTTPResponses : CallValidateResponse(r)

SpecValidate == InitWait /\ [][NextValidate]_vars

\* ------------------------------------------------------------ validation
\* the Content-Type of the response is JSON: application/json, with or
\* without parameters after it
JSONContentType ==
    response.ContentType \in {<<"application/json">>,
                              <<"application/json", "; charset=utf-8">>}

\* C23: validateResponse returns an error exactly when the response is not
\* an error response (status below 400), has a body that is not empty
\* (neither a zero-length body nor Content-Length 0), and has a Content-Type
\* that is set and does not start with application/json.  Empty bodies,
\* Content-Length 0, error responses and responses without a Content-Type
\* always pass.
C23_ContentTypeChecked ==
    response /= NoResponse =>
        /\ validateErr /= "none" <=>
              /\ response.StatusCode < 400
              /\ response.bodyLen /= 0
              /\ response.ContentLength /= "0"
              /\ response.ContentType /= <<>>
              /\ ~JSONContentType
        /\ \/ response.bodyLen = 0
           \/ response.ContentLength = "0"
           \/ response.StatusCode >= 400
           \/ response.ContentType = <<>>
           => validateErr = "none"

C23_Witness ==
    /\ response.StatusCode = 200
    /\ response.bodyLen = 5
    /\ response.ContentLength = "5"
    /\ response.ContentType = <<"text/html", "; charset=utf-8">>
    /\ validateErr = "unexpected response Content-Type"


\* ===========================================================================
\* The token lifecycle, continued
\* ===========================================================================
\* the stored token came with expires_in <= 0
ImmediateExpiry == currentToken /= NoToken /\ currentToken.ExpiresIn <= 0

\* C25: a token stored with expires_in <= 0 counts as expired at once: it is
\* never usable, so no GetToken is served from the cache while it is the
\* stored token, and every GetToken that returns meanwhile has contacted the
\* token endpoint.
C25_ImmediateExpiryNeverCached ==
    /\ [](ImmediateExpiry => ~Usable /\ tokenExpiry <= now)
    /\ [][\A p \in Procs :
             (ImmediateExpiry /\ Completes(p) /\ op[p] = "GetToken") =>
                 /\ via'[p] = "fetch"
                 /\ calls'[p] >= 1]_vars

C25_Witness ==
    \E p \in Procs :
        /\ ImmediateExpiry
        /\ Done(p, "GetToken")
        /\ startSerial[p] = currentToken.serial
        /\ via[p] = "fetch"
        /\ calls[p] = 1

\* C26: the refresh threshold is 5 minutes: GetToken does not return from
\* the cache a token that has less than 300 seconds of lifetime left.
C26_FiveMinuteThreshold ==
    [][\A p \in Procs :
          (/\ Completes(p)
           /\ op[p] = "GetToken"
           /\ via'[p] \in {"cache", "dcheck"}) => tokenExpiry - now >= 300]_vars

\* C28: a GetToken or RefreshToken that returns a nil error returns an access
\* token that is not empty, and a token without access_token is never the
\* stored token.
C28_NilErrorMeansToken ==
    /\ \A p \in Procs :
          (/\ pc[p] = "done"
           /\ op[p] \in {"GetToken", "RefreshToken"}
           /\ result[p].err = "none") => result[p].token /= 0
    /\ currentToken /= NoToken => currentToken.AccessToken /= 0

\* C29: an InvalidateToken issued while a refresh is in flight is not lost.
\* It returns only after that refresh has stored its token and the token
\* has been cleared: when it returns, nothing is stored and no token POST
\* is awaiting its answer.  A token is stored only as the answer of a POST
\* that is in flight, and a GetToken that returns without contacting the
\* endpoint returns the token stored at that moment; so a GetToken that
\* starts after InvalidateToken has returned cannot return the token of the
\* earlier refresh without a call to the endpoint.
C29_InvalidateNotLost ==
    /\ [][\A q \in Procs :
             (Completes(q) /\ op[q] = "InvalidateToken") =>
                 /\ currentToken' = NoToken
                 /\ \A p \in Procs :
                       ~(pc'[p] = "rt_resp" /\ resp'[p].kind = "sent")]_vars
    /\ [][(currentToken' /= currentToken /\ currentToken' /= NoToken) =>
             \E p \in InFlight : currentToken'.serial = resp[p].no]_vars
    /\ [][\A p \in Procs :
             (/\ Completes(p)
              /\ op[p] = "GetToken"
              /\ result'[p].err = "none"
              /\ calls'[p] = 0) =>
                 /\ currentToken /= NoToken
                 /\ result'[p].serial = currentToken.serial]_vars

\* InvalidateToken was issued before token 1 was stored and has returned;
\* the GetToken that began after that store has fetched token 2
C29_Witness ==
    \E p, q \in Procs :
        /\ ~middleware
        /\ Done(q, "InvalidateToken")
        /\ startSerial[q] = 0
        /\ Done(p, "GetToken")
        /\ startSerial[p] = 1
        /\ calls[p] = 1
        /\ result[p].err = "none"
        /\ result[p].serial = 2

\* The token manager of NewTokenManager on a plain client, with goroutines
\* that are scheduled fairly: a goroutine that can take a step takes it, and
\* one that waits for tm.mu gets it.  sync.RWMutex does not starve a waiter:
\* a blocked Lock keeps new readers out, so readers that overlap one another
\* do not hold up a writer for ever.
NextToken ==
    \/ \E p \in Procs : CallGetToken(p) /\ UNCHANGED otherVars
    \/ \E p \in Procs : CallRefreshToken(p) /\ UNCHANGED otherVars
    \/ \E p \in Procs : GetTokenRLock(p) /\ UNCHANGED otherVars
    \/ \E p \in Procs : GetTokenCheck(p) /\ UNCHANGED otherVars
    \/ \E p \in Procs : RefreshTokenLock(p) /\ UNCHANGED otherVars
    \/ \E p \in Procs : RefreshTokenDoubleCheck(p) /\ UNCHANGED otherVars
    \/ \E p \in Procs : RefreshTokenSend(p) /\ UNCHANGED otherVars
    \/ \E p \in Procs : RefreshTokenReceive(p) /\ UNCHANGED otherVars

\* a step of goroutine p that waits for nothing but the scheduler
Step(p) ==
    /\ \/ GetTokenCheck(p)
       \/ RefreshTokenDoubleCheck(p)
       \/ RefreshTokenSend(p)
       \/ RefreshTokenReceive(p)
    /\ UNCHANGED otherVars

\* goroutine p gets tm.mu
LockStep(p) ==
    /\ GetTokenRLock(p) \/ RefreshTokenLock(p)
    /\ UNCHANGED otherVars

\* p waits in tm.mu.Lock() behind readers only
HeldUpByReaders(p) ==
    pc[p] = "rt_lock" /\ muWriter = None /\ muReaders /= {}

SpecTokenFair ==
    /\ InitWait
    /\ [][NextToken]_vars
    /\ \A p \in Procs : WF_vars(Step(p)) /\ SF_vars(LockStep(p))
    /\ \A p \in Procs : []<>~HeldUpByReaders(p)

\* a refresh by another goroutine has failed while p was waiting for tm.mu
AfterFailure(p) == sawFailure[p]

\* C30: a failed refresh does not wedge the token manager.  tm.mu is held
\* only inside RefreshToken and is released on each of its returns, so a
\* GetToken that runs after failed refreshes gets the lock, and returns; when
\* its own POST is answered 200 it returns the token of that answer.  (The
\* model sends at most MaxCalls POSTs; a GetToken kept from sending by that
\* is not counted.)
C30_FailedRefreshNeverWedges ==
    /\ [](\A p \in Procs :
             muWriter = p => pc[p] \in {"rt_check", "rt_send", "rt_resp"})
    /\ [][\A p \in Procs :
             Completes(p) => muWriter' /= p /\ p \notin muReaders']_vars
    /\ [][\A p \in Procs :
             (/\ Completes(p)
              /\ pc[p] = "rt_resp"
              /\ currentToken' /= currentToken) =>
                 /\ result'[p].err = "none"
                 /\ result'[p].serial = resp[p].no
                 /\ currentToken'.serial = resp[p].no]_vars
    /\ \A p \in Procs :
          (op[p] = "GetToken" /\ Active(p))
              ~> (pc[p] = "done" \/ endpointCalls = MaxCalls)

\* p waited for the lock while a refresh failed, then refreshed and returned
C30_Witness ==
    \E p \in Procs :
        /\ Done(p, "GetToken")
        /\ AfterFailure(p)
        /\ via[p] = "fetch"
        /\ result[p].err = "none"
        /\ result[p].token /= 0

=============================================================================
